---- MODULE Spec2Model ----
(***************************************************************************)
(* A model of the macOS Contacts MCP server (src/src/index.ts): the five   *)
(* tool operations, the AppleScript text they generate, the Contacts       *)
(* application that runs it, and the decoding of its flattened output.     *)
(*                                                                         *)
(* A string is a sequence of one-character strings.  A generated script is *)
(* a record naming its template (kind) and the text embedded in each of    *)
(* its double-quoted literals; running it reads every literal the way the  *)
(* interpreter does and applies the template's statements to the store.    *)
(***************************************************************************)
EXTENDS Integers, Sequences, FiniteSets, TLC

VARIABLES
    people,     \* the Contacts store: the sequence of person records
    op,         \* the tool of the last request ("none" before the first)
    args,       \* the arguments of the last request
    resp,       \* what the last request returned, or that it threw
    log,        \* the scripts the last request handed to executeAppleScript
    before,     \* the store as it was when the last request arrived
    nOps,       \* the number of requests served
    reply,      \* what the request handler returned for the last request
    jobs,       \* pending requests development: the handlers ready to run
    trace,      \* pending requests development: the scripts executed, in order
    str,        \* escaper development: the input string
    escaped     \* escaper development: its escaped form

vars ==
    <<people, op, args, resp, log, before, nOps, reply, jobs, trace, str, escaped>>

-----------------------------------------------------------------------------
(* Bounds *)

MaxLen == 3         \* longest input string of the escaper development
MaxPeople == 2      \* most contacts the store holds
MaxOps == 1         \* most requests in one run
MaxPending == 2     \* most requests of the pending requests development

-----------------------------------------------------------------------------
(* Strings *)

BS == "\\"
DQ == "\""
NL == "\n"
CR == "\r"
TAB == "\t"
SP == " "

Empty == << >>

RECURSIVE Concat(_)
\* the concatenation of a sequence of strings
Concat(ss) == IF ss = << >> THEN << >> ELSE Head(ss) \o Concat(Tail(ss))

RECURSIVE Join(_, _)
\* Array.prototype.join, and AppleScript's text of a list
Join(ss, sep) ==
    IF ss = << >> THEN << >>
    ELSE IF Len(ss) = 1 THEN ss[1]
    ELSE ss[1] \o sep \o Join(Tail(ss), sep)

IsPrefixAt(s, sep, i) ==
    /\ i + Len(sep) - 1 <= Len(s)
    /\ \A k \in 1..Len(sep) : s[i + k - 1] = sep[k]

RECURSIVE SplitFrom(_, _, _, _)
\* String.prototype.split with a non-empty separator: cur is the piece being
\* read, i the next position
SplitFrom(s, sep, i, cur) ==
    IF i > Len(s) THEN <<cur>>
    ELSE IF IsPrefixAt(s, sep, i)
         THEN <<cur>> \o SplitFrom(s, sep, i + Len(sep), << >>)
         ELSE SplitFrom(s, sep, i + 1, Append(cur, s[i]))

Split(s, sep) == SplitFrom(s, sep, 1, << >>)

IsSpace(c) == c \in {SP, NL, CR, TAB}

RECURSIVE TrimStart(_)
TrimStart(s) ==
    IF s # << >> /\ IsSpace(Head(s)) THEN TrimStart(Tail(s)) ELSE s

RECURSIVE TrimEnd(_)
TrimEnd(s) ==
    IF s # << >> /\ IsSpace(s[Len(s)])
    THEN TrimEnd(SubSeq(s, 1, Len(s) - 1))
    ELSE s

\* String.prototype.trim
Trim(s) == TrimEnd(TrimStart(s))

\* Array.prototype.slice(0, n)
Slice0(xs, n) ==
    LET m == IF n < 0 THEN Len(xs) + n ELSE n
        e == IF m < 0 THEN 0 ELSE IF m > Len(xs) THEN Len(xs) ELSE m
    IN  SubSeq(xs, 1, e)

\* x || '' : the part when there is one, else the empty string
PartOr(parts, i) == IF i <= Len(parts) THEN parts[i] ELSE Empty

Min(a, b) == IF a < b THEN a ELSE b

-----------------------------------------------------------------------------
(* Script Escaper *)

RECURSIVE ReplaceAll(_, _, _)
\* str.replace(/c/g, r) for a one-character pattern c
ReplaceAll(s, c, r) ==
    IF s = << >> THEN << >>
    ELSE (IF Head(s) = c THEN r ELSE <<Head(s)>>) \o ReplaceAll(Tail(s), c, r)

\* a slip: the quotes are escaped before the backslashes
EscapeQuotesFirst(s) ==
    ReplaceAll(ReplaceAll(ReplaceAll(ReplaceAll(ReplaceAll(s,
        DQ, <<BS, DQ>>),
        BS, <<BS, BS>>),
        NL, <<BS, "n">>),
        CR, <<BS, "r">>),
        TAB, <<BS, "t">>)

escapeForAppleScript(s) ==
    ReplaceAll(ReplaceAll(ReplaceAll(ReplaceAll(ReplaceAll(s,
        BS, <<BS, BS>>),
        DQ, <<BS, DQ>>),
        NL, <<BS, "n">>),
        CR, <<BS, "r">>),
        TAB, <<BS, "t">>)

-----------------------------------------------------------------------------
(* The interpreter's reading of a double-quoted literal *)

Bad == [ok |-> FALSE, val |-> Empty]

RECURSIVE ReadFrom(_, _, _)
\* t is the text the builder put between the two quotes of a literal.  A
\* backslash takes the next character with it; a quote that no backslash
\* precedes ends the literal, and the text left after it is read as script
\* source (BreaksOut below tells when that source parses); a backslash that
\* swallows the closing quote leaves a statement that does not parse.
ReadFrom(t, i, acc) ==
    IF i > Len(t) THEN [ok |-> TRUE, val |-> acc]
    ELSE IF t[i] = BS
         THEN IF i = Len(t) THEN Bad
              ELSE IF t[i + 1] = BS THEN ReadFrom(t, i + 2, Append(acc, BS))
              ELSE IF t[i + 1] = DQ THEN ReadFrom(t, i + 2, Append(acc, DQ))
              ELSE IF t[i + 1] = "n" THEN ReadFrom(t, i + 2, Append(acc, NL))
              ELSE IF t[i + 1] = "r" THEN ReadFrom(t, i + 2, Append(acc, CR))
              ELSE IF t[i + 1] = "t" THEN ReadFrom(t, i + 2, Append(acc, TAB))
              ELSE Bad
    ELSE IF t[i] = DQ THEN Bad
    ELSE ReadFrom(t, i + 1, Append(acc, t[i]))

ReadLiteral(t) == ReadFrom(t, 1, << >>)

\* Text that a caller can put after a quote of its own: the statements
\*     set note of targetPerson to ""
\*     save
\* each on a line, and a quote that the builder's closing quote turns into
\* the expression "".  After `set targetPerson to person id "..."` the
\* script still parses, and it now holds statements that write.
InjectedSource ==
    <<NL, "s", "e", "t", SP, "n", "o", "t", "e", SP, "o", "f", SP, "t", "a",
      "r", "g", "e", "t", "P", "e", "r", "s", "o", "n", SP, "t", "o", SP, DQ,
      DQ, NL, "s", "a", "v", "e", NL, DQ>>

\* the text t, embedded as it came, ends its literal early and goes on with
\* InjectedSource: what the builder meant as one literal is a shorter literal
\* followed by statements
BreaksOut(t) ==
    /\ Len(t) > Len(InjectedSource)
    /\ t[Len(t) - Len(InjectedSource)] = DQ
    /\ SubSeq(t, Len(t) - Len(InjectedSource) + 1, Len(t)) = InjectedSource
    /\ ReadLiteral(SubSeq(t, 1, Len(t) - Len(InjectedSource) - 1)).ok

\* the literal that such a text leaves
Shortened(t) == SubSeq(t, 1, Len(t) - Len(InjectedSource) - 1)

-----------------------------------------------------------------------------
(* Fixed texts of the scripts and of their output *)

NotFoundText ==
    <<"C","o","n","t","a","c","t",SP,"n","o","t",SP,"f","o","u","n","d">>
Pipe == <<"|">>
CommaSpace == <<",", SP>>
Colon == <<":">>
SplitMark == <<"#","#","#","S","P","L","I","T","#","#","#">>
EndMark == <<"#","#","#","E","N","D","#","#","#">>
HomeLabel == <<"h","o","m","e">>
WorkLabel == <<"w","o","r","k">>
EmailWord == <<"e","m","a","i","l">>
PhoneWord == <<"p","h","o","n","e">>

\* the decimal text of a small natural number
DigitText(n) ==
    <<CASE n = 0 -> "0" [] n = 1 -> "1" [] n = 2 -> "2" [] n = 3 -> "3"
        [] n = 4 -> "4" [] n = 5 -> "5" [] n = 6 -> "6" [] n = 7 -> "7"
        [] n = 8 -> "8" [] OTHER -> "9">>

\* a slip: the label carries the 0-based index itself, not index + 1
PositionLabelFromIndex(word, i) ==
    IF i = 1 THEN HomeLabel
    ELSE IF i = 2 THEN WorkLabel
    ELSE word \o DigitText(i - 1)

\* index === 0 ? 'home' : index === 1 ? 'work' : `email${index + 1}`, for the
\* 1-based position i = index + 1
PositionLabel(word, i) ==
    IF i = 1 THEN HomeLabel
    ELSE IF i = 2 THEN WorkLabel
    ELSE word \o DigitText(i)

-----------------------------------------------------------------------------
(* The literals of a script *)

\* a caller's string, escaped before it is embedded
Escaped(raw) ==
    [origin |-> "caller", raw |-> raw, text |-> escapeForAppleScript(raw)]
\* a caller's string embedded as it came
Unescaped(raw) == [origin |-> "caller", raw |-> raw, text |-> raw]
\* an identifier decoded from the store's output, embedded as it came
FromStore(raw) == [origin |-> "store", raw |-> raw, text |-> raw]
\* a text the builder itself wrote
Fixed(raw) == [origin |-> "builder", raw |-> raw, text |-> raw]

\* A script: its template, the bound of its repeat loop, the literals of its
\* statements in order, and the {label, value} literals of the entries it
\* appends
Script(kind, n, lits, emails, phones, urls) ==
    [kind |-> kind, n |-> n, lits |-> lits,
     emails |-> emails, phones |-> phones, urls |-> urls]

EntryLits(es) ==
    {es[i].label : i \in 1..Len(es)} \cup {es[i].value : i \in 1..Len(es)}

AllLits(s) ==
    {s.lits[i] : i \in 1..Len(s.lits)}
        \cup EntryLits(s.emails) \cup EntryLits(s.phones) \cup EntryLits(s.urls)

\* the script compiles: every literal ends where the builder meant it to
Compiles(s) ==
    \A l \in AllLits(s) : ReadLiteral(l.text).ok \/ BreaksOut(l.text)

\* the string a literal denotes to the interpreter
Val(l) ==
    IF BreaksOut(l.text) THEN ReadLiteral(Shortened(l.text)).val
    ELSE ReadLiteral(l.text).val

\* the script holds statements that a caller's text brought in
Injected(s) == \E l \in AllLits(s) : BreaksOut(l.text)

\* the sequence with the members of f, f a function on 1..n
Tuple(f) == f \o << >>

EntryVals(es) ==
    Tuple([i \in 1..Len(es) |->
              [label |-> Val(es[i].label), value |-> Val(es[i].value)]])

-----------------------------------------------------------------------------
(* The Contacts application *)

\* name of a person: first and last name, a space between them when both are set
NameOf(p) ==
    IF p.first # Empty /\ p.last # Empty
    THEN p.first \o <<SP>> \o p.last
    ELSE p.first \o p.last

\* person id "x": the position of the person with that id, 0 when there is none
FindById(store, x) ==
    IF \E i \in 1..Len(store) : store[i].id = x
    THEN CHOOSE i \in 1..Len(store) : store[i].id = x
    ELSE 0

\* person "x": the position of the first person of that name, 0 when none
FindByName(store, x) ==
    IF \E i \in 1..Len(store) : NameOf(store[i]) = x
    THEN CHOOSE i \in 1..Len(store) :
            /\ NameOf(store[i]) = x
            /\ \A j \in 1..(i - 1) : NameOf(store[j]) # x
    ELSE 0

\* a slip: the lookup by name comes first
ResolveNameFirst(store, x) ==
    IF FindByName(store, x) # 0 THEN FindByName(store, x) ELSE FindById(store, x)

\* try person id "x", on error try person "x": the position found, 0 when
\* both fail
Resolve(store, x) ==
    IF FindById(store, x) # 0 THEN FindById(store, x) ELSE FindByName(store, x)

\* s contains q
Contains(s, q) ==
    \E i \in 1..(Len(s) - Len(q) + 1) : IsPrefixAt(s, q, i)

RECURSIVE Filter(_, _)
\* the members of xs whose name contains q, in order
Filter(xs, q) ==
    IF xs = << >> THEN << >>
    ELSE (IF Contains(NameOf(Head(xs)), q) THEN <<Head(xs)>> ELSE << >>)
            \o Filter(Tail(xs), q)

\* the id the store gives to its next new person
NewId(store) == DigitText(Len(store) + 1)

\* the modification date the store shows for a person; how many days ago a
\* person was created and last modified is kept beside it
DateText == <<"d">>

NewPerson(store) ==
    [id |-> NewId(store), first |-> Empty, last |-> Empty,
     organization |-> Empty, job_title |-> Empty, note |-> Empty,
     emails |-> << >>, phones |-> << >>, urls |-> << >>,
     modified |-> DateText, created_days |-> 0, modified_days |-> 0]

\* if v is not "" then set f of newPerson to v: the value of f afterwards,
\* old being its value in the new person
SetIfNotEmpty(l, old) == IF Val(l) # Empty THEN Val(l) ELSE old

Values(es) == Tuple([i \in 1..Len(es) |-> es[i].value])
LabelValues(es) ==
    Tuple([i \in 1..Len(es) |-> es[i].label \o Colon \o es[i].value])

Done(out, store) == [ok |-> TRUE, out |-> out, store |-> store]
Failed(store) == [ok |-> FALSE, out |-> Empty, store |-> store]

\* the scripts that begin with: set targetPerson to person id "x"
PersonKinds ==
    {"fetch_emails", "fetch_phones", "fetch_urls",
     "set_name", "set_organization", "set_job_title", "set_note",
     "clear_urls", "add_urls", "clear_emails", "add_emails",
     "clear_phones", "add_phones"}

\* what such a script returns for its person p
PersonOut(s, p) ==
    CASE s.kind = "fetch_emails" -> Join(Values(p.emails), CommaSpace)
      [] s.kind = "fetch_phones" -> Join(Values(p.phones), CommaSpace)
      [] s.kind = "fetch_urls" -> Join(LabelValues(p.urls), CommaSpace)
      [] OTHER -> Empty

\* a slip: the script makes a new person in place of the one it changes
PersonRecreated(s, p) == [p EXCEPT !.id = p.id \o <<"'">>]

\* what such a script makes of its person p
PersonChange(s, p) ==
    CASE s.kind = "set_name" ->
            [p EXCEPT !.first = Val(s.lits[2]), !.last = Val(s.lits[3])]
      [] s.kind = "set_organization" -> [p EXCEPT !.organization = Val(s.lits[2])]
      [] s.kind = "set_job_title" -> [p EXCEPT !.job_title = Val(s.lits[2])]
      [] s.kind = "set_note" -> [p EXCEPT !.note = Val(s.lits[2])]
      [] s.kind = "clear_urls" -> [p EXCEPT !.urls = << >>]
      [] s.kind = "add_urls" -> [p EXCEPT !.urls = @ \o EntryVals(s.urls)]
      [] s.kind = "clear_emails" -> [p EXCEPT !.emails = << >>]
      [] s.kind = "add_emails" -> [p EXCEPT !.emails = @ \o EntryVals(s.emails)]
      [] s.kind = "clear_phones" -> [p EXCEPT !.phones = << >>]
      [] s.kind = "add_phones" -> [p EXCEPT !.phones = @ \o EntryVals(s.phones)]
      [] OTHER -> p

\* the scripts of a person that end with: save
SavingKinds ==
    PersonKinds \ {"fetch_emails", "fetch_phones", "fetch_urls"}

\* the person after such a script: save stamps the modification date
PersonAfter(s, p) ==
    IF s.kind \in SavingKinds
    THEN [PersonChange(s, p) EXCEPT !.modified_days = 0]
    ELSE p

\* the person a create script makes
NewPersonOf(s, store) ==
    [NewPerson(store) EXCEPT
        !.first = SetIfNotEmpty(s.lits[1], @),
        !.last = SetIfNotEmpty(s.lits[2], @),
        !.organization = SetIfNotEmpty(s.lits[3], @),
        !.job_title = SetIfNotEmpty(s.lits[4], @),
        !.note = SetIfNotEmpty(s.lits[5], @),
        !.emails = EntryVals(s.emails),
        !.phones = EntryVals(s.phones),
        !.urls = EntryVals(s.urls)]

\* the first n people, n being the bound of the script's repeat loop
FirstPeople(s, store) ==
    SubSeq(store, 1, IF s.n < 0 THEN 0 ELSE Min(s.n, Len(store)))

\* the most rows script s enumerates in a store of k people: the repeat loop
\* of the list and recent scripts stops at its bound, the filter of the
\* search script has none
MostRows(s, k) ==
    CASE s.kind = "search" -> k
      [] s.kind \in {"list", "recent"} -> IF s.n < 0 THEN 0 ELSE Min(s.n, k)
      [] OTHER -> 1

Names(ps) == Tuple([i \in 1..Len(ps) |-> NameOf(ps[i])])

\* What the application does with a script that compiles, and the text
\* osascript prints for its result (a list prints as its items joined by ", ")
Interpret(s, store) ==
    CASE s.kind # "fetch" /\ Injected(s) ->
            \* the injected statements refer to targetPerson, which only the
            \* fetch script defines: the script stops with an error
            Failed(store)
      [] s.kind = "search" ->
            Done(Join(Names(Filter(store, Val(s.lits[1]))), CommaSpace), store)
      [] s.kind = "list" ->
            Done(Join(Names(FirstPeople(s, store)), CommaSpace), store)
      [] s.kind = "recent" ->
            LET ps == FirstPeople(s, store)
            IN  Done(Join(Tuple([i \in 1..Len(ps) |->
                              NameOf(ps[i]) \o SplitMark \o ps[i].modified
                                  \o EndMark]), CommaSpace), store)
      [] s.kind = "fetch" ->
            LET i == Resolve(store, Val(s.lits[1]))
            IN  IF i = 0 THEN Done(NotFoundText, store)
                ELSE IF Injected(s)
                THEN \* the injected statements run once targetPerson is set
                     Done(Join(<<store[i].id, NameOf(store[i]),
                                 store[i].organization, store[i].job_title,
                                 Empty>>, Pipe),
                          [store EXCEPT ![i] = [@ EXCEPT !.note = Empty,
                                                         !.modified_days = 0]])
                ELSE Done(Join(<<store[i].id, NameOf(store[i]),
                                 store[i].organization, store[i].job_title,
                                 store[i].note>>, Pipe), store)
      [] s.kind = "create" ->
            Done(NewId(store), Append(store, NewPersonOf(s, store)))
      [] s.kind \in PersonKinds ->
            LET i == FindById(store, Val(s.lits[1]))
            IN  IF i = 0 THEN Failed(store)
                ELSE Done(PersonOut(s, store[i]),
                          [store EXCEPT ![i] = PersonAfter(s, store[i])])

-----------------------------------------------------------------------------
(* Script Executor *)

\* execSync('osascript', {input: script}).trim(), or the error it throws.
\* fails holds the kinds of script whose process the environment lets fail
\* (it cannot start, or permission is denied); such a process changes nothing.
\* A script that does not compile makes osascript exit non-zero.
executeAppleScript(s, store, fails) ==
    IF s.kind \in fails \/ ~Compiles(s) THEN Failed(store)
    ELSE LET r == Interpret(s, store)
         IN  [r EXCEPT !.out = Trim(r.out)]

\* the record the log keeps of one execution: the script, whether it returned,
\* the text it returned, and whether it was the environment that made it fail
\* a slip: a script whose process failed is started a second time
RanRetrying(s, r, fails) ==
    [script |-> s, ok |-> r.ok, out |-> r.out, env |-> s.kind \in fails,
     starts |-> IF r.ok THEN 1 ELSE 2,
     error |-> IF r.ok THEN "" ELSE "AppleScript execution failed"]

\* (starts: the interpreter processes the call started; error: what the call
\* raised)
Ran(s, r, fails) ==
    [script |-> s, ok |-> r.ok, out |-> r.out, env |-> s.kind \in fails,
     starts |-> 1,
     error |-> IF r.ok THEN "" ELSE "AppleScript execution failed"]

-----------------------------------------------------------------------------
(* Responses *)

Fields == {"name", "organization", "job_title", "note", "urls", "emails", "phones"}

NoContact ==
    [id |-> Empty, name |-> Empty, organization |-> Empty, job_title |-> Empty,
     note |-> Empty, emails |-> << >>, phones |-> << >>, urls |-> << >>]

\* the fields a response can carry; threw says the operation raised an Error
\* (whose message starts with error) instead of returning
NoResp ==
    [threw |-> FALSE, error |-> "", success |-> FALSE, message |-> "",
     has_contact |-> FALSE, contact |-> NoContact,
     contacts |-> << >>, count |-> 0, contact_id |-> Empty,
     updated_fields |-> << >>]

Threw(error) == [NoResp EXCEPT !.threw = TRUE, !.error = error]

\* What the request handler returns: the number of responses, the flags it
\* sets, and its content, a list of items of a type and a text
NoReply == [sent |-> 0, flags |-> {}, content |-> << >>]

TextItem(prefix, body) ==
    [type |-> "text", text |-> [prefix |-> prefix, body |-> body]]

\* a slip: the catch block does not set isError
RespondUnflagged(r) ==
    [sent |-> 1, flags |-> {},
     content |-> <<TextItem(IF r.threw THEN "Error: " ELSE "",
                            IF r.threw THEN r.error ELSE "result")>>]

\* the return of the try block, JSON.stringify(result), or of the catch
\* block, `Error: ${error.message}` with isError
Respond(r) ==
    IF r.threw
    THEN [sent |-> 1, flags |-> {"isError"},
          content |-> <<TextItem("Error: ", r.error)>>]
    ELSE [sent |-> 1, flags |-> {}, content |-> <<TextItem("", "result")>>]

-----------------------------------------------------------------------------
(* getContact *)

\* item => { const [label, ...valueParts] = item.split(':'); ... }
ParseUrl(item) ==
    [label |-> Head(Split(item, Colon)),
     value |-> Join(Tail(Split(item, Colon)), Colon)]

\* a slip: the output is split whether or not it is empty
SplitAlways(out) == Split(out, CommaSpace)

\* result ? result.split(', ') : []
ParseList(out) == IF out = Empty THEN << >> ELSE Split(out, CommaSpace)

ParseUrls(out) ==
    Tuple([i \in 1..Len(ParseList(out)) |-> ParseUrl(ParseList(out)[i])])

FetchScript(identifier) ==
    Script("fetch", 0, <<Unescaped(identifier)>>, << >>, << >>, << >>)

SubScript(kind, id) == Script(kind, 0, <<FromStore(id)>>, << >>, << >>, << >>)

SubKinds == {"fetch_emails", "fetch_phones", "fetch_urls"}

\* the value of one of the three sub-queries: the decoded list, or [] when
\* its script failed
SubQuery(r, parsed) == IF r.ok THEN parsed ELSE << >>

\* the contact decoded from the parts of the main script's output and the
\* results sub of the three sub-queries
Decoded(parts, sub) ==
    [id |-> PartOr(parts, 1),
     name |-> PartOr(parts, 2),
     organization |-> PartOr(parts, 3),
     job_title |-> PartOr(parts, 4),
     note |-> PartOr(parts, 5),
     emails |-> SubQuery(sub["fetch_emails"], ParseList(sub["fetch_emails"].out)),
     phones |-> SubQuery(sub["fetch_phones"], ParseList(sub["fetch_phones"].out)),
     urls |-> SubQuery(sub["fetch_urls"], ParseUrls(sub["fetch_urls"].out))]

\* a slip: a sub-query that fails makes getContact throw
FoundUnlessSubQueryFailed(first, id, sub, fails) ==
    [resp |-> IF \A k \in SubKinds : sub[k].ok
              THEN [NoResp EXCEPT !.success = TRUE, !.has_contact = TRUE,
                                  !.contact = Decoded(first.parts, sub)]
              ELSE Threw("Get contact failed"),
     log |-> <<first.ran,
               Ran(SubScript("fetch_emails", id), sub["fetch_emails"], fails),
               Ran(SubScript("fetch_phones", id), sub["fetch_phones"], fails),
               Ran(SubScript("fetch_urls", id), sub["fetch_urls"], fails)>>,
     store |-> sub["fetch_urls"].store]

\* the three sub-queries on the id read from the main script's output, each
\* under its own try
Found(first, id, sub, fails) ==
    [resp |-> [NoResp EXCEPT !.success = TRUE, !.has_contact = TRUE,
                             !.contact = Decoded(first.parts, sub)],
     log |-> <<first.ran,
               Ran(SubScript("fetch_emails", id), sub["fetch_emails"], fails),
               Ran(SubScript("fetch_phones", id), sub["fetch_phones"], fails),
               Ran(SubScript("fetch_urls", id), sub["fetch_urls"], fails)>>,
     store |-> sub["fetch_urls"].store]

\* what getContact makes of the result r of its main script, run on store
Fetched(script, r, store, fails) ==
    IF ~r.ok
    THEN [resp |-> Threw("Get contact failed"),
          log |-> <<Ran(script, r, fails)>>, store |-> r.store]
    ELSE IF r.out = NotFoundText
    THEN [resp |-> [NoResp EXCEPT !.message = "Contact not found"],
          log |-> <<Ran(script, r, fails)>>, store |-> r.store]
    ELSE Found([ran |-> Ran(script, r, fails), parts |-> Split(r.out, Pipe)],
               PartOr(Split(r.out, Pipe), 1),
               [k \in SubKinds |->
                   executeAppleScript(
                       SubScript(k, PartOr(Split(r.out, Pipe), 1)),
                       r.store, fails)],
               fails)

\* returns the response, the executions made and the store they left
getContact(identifier, store, fails) ==
    Fetched(FetchScript(identifier),
            executeAppleScript(FetchScript(identifier), store, fails),
            store, fails)

-----------------------------------------------------------------------------
(* createContact *)

\* name.trim().split(' '): the first token, and the rest joined by spaces
FirstName(name) == PartOr(Split(Trim(name), <<SP>>), 1)
LastName(name) ==
    IF Len(Split(Trim(name), <<SP>>)) > 1
    THEN Join(Tail(Split(Trim(name), <<SP>>)), <<SP>>)
    ELSE Empty

PositionalEntries(word, xs) ==
    Tuple([i \in 1..Len(xs) |->
              [label |-> Fixed(PositionLabel(word, i)), value |-> Escaped(xs[i])]])

UrlEntries(us) ==
    Tuple([i \in 1..Len(us) |->
              [label |-> Escaped(us[i].label), value |-> Escaped(us[i].value)]])

CreateScript(a) ==
    Script("create", 0,
           <<Escaped(FirstName(a.name)), Escaped(LastName(a.name)),
             Escaped(a.organization), Escaped(a.job_title), Escaped(a.note)>>,
           PositionalEntries(EmailWord, a.emails),
           PositionalEntries(PhoneWord, a.phones),
           UrlEntries(a.urls))

\* what createContact makes of the result r of its script
Created(a, script, r, fails) ==
    [resp |-> IF r.ok
              THEN [NoResp EXCEPT
                      !.success = TRUE,
                      !.message = "Created contact",
                      !.contact_id = r.out,
                      !.has_contact = TRUE,
                      !.contact =
                          [NoContact EXCEPT
                             !.name = a.name,
                             !.organization = a.organization,
                             !.job_title = a.job_title,
                             !.note = a.note,
                             !.emails = a.emails,
                             !.phones = a.phones,
                             !.urls = a.urls]]
              ELSE Threw("Create contact failed"),
     log |-> <<Ran(script, r, fails)>>,
     store |-> r.store]

\* name.trim() throws a TypeError when the request carries no name
createContact(a, store, fails) ==
    IF "name" \in a.missing
    THEN [resp |-> Threw("TypeError"), log |-> << >>, store |-> store]
    ELSE Created(a, CreateScript(a),
                 executeAppleScript(CreateScript(a), store, fails), fails)

-----------------------------------------------------------------------------
(* updateContact *)

\* the state threaded through the field updates of one call; ok says whether
\* the script executed last returned
Progress(store, lg, updated) ==
    [store |-> store, log |-> lg, updated |-> updated, ok |-> TRUE]

\* a slip: the collection fields are updated before the scalar ones
FieldOrderCollectionsFirst ==
    <<"urls", "emails", "phones", "name", "organization", "job_title", "note">>

\* the order in which the source takes the fields
FieldOrder ==
    <<"name", "organization", "job_title", "note", "urls", "emails", "phones">>

CollectionFields == {"urls", "emails", "phones"}

OnId(kind, id, lits, emails, phones, urls) ==
    Script(kind, 0, <<FromStore(id)>> \o lits, emails, phones, urls)

\* the script a field's update starts with: the assignment of a scalar field,
\* the removal of every entry of a collection field
FirstScript(f, a, id) ==
    CASE f = "name" ->
            OnId("set_name", id, <<Escaped(FirstName(a.name)),
                                   Escaped(LastName(a.name))>>, << >>, << >>, << >>)
      [] f = "organization" ->
            OnId("set_organization", id, <<Escaped(a.organization)>>,
                 << >>, << >>, << >>)
      [] f = "job_title" ->
            OnId("set_job_title", id, <<Escaped(a.job_title)>>, << >>, << >>, << >>)
      [] f = "note" ->
            OnId("set_note", id, <<Escaped(a.note)>>, << >>, << >>, << >>)
      [] f = "urls" -> OnId("clear_urls", id, << >>, << >>, << >>, << >>)
      [] f = "emails" -> OnId("clear_emails", id, << >>, << >>, << >>, << >>)
      [] f = "phones" -> OnId("clear_phones", id, << >>, << >>, << >>, << >>)

\* the script that appends the new entries of a collection field
SecondScript(f, a, id) ==
    CASE f = "urls" ->
            OnId("add_urls", id, << >>, << >>, << >>, UrlEntries(a.urls))
      [] f = "emails" ->
            OnId("add_emails", id, << >>,
                 PositionalEntries(EmailWord, a.emails), << >>, << >>)
      [] OTHER ->
            OnId("add_phones", id, << >>, << >>,
                 PositionalEntries(PhoneWord, a.phones), << >>)

\* if (updates.f.length > 0), for a collection field
HasSecond(f, a) == f \in CollectionFields /\ Len(a[f]) > 0

\* the progress st after the execution of s, r being its result
Stepped(st, s, r, fails) ==
    [store |-> r.store, log |-> Append(st.log, Ran(s, r, fails)),
     updated |-> st.updated, ok |-> r.ok]

\* this.executeAppleScript(s) within the update of a field
RunStep(st, s, fails) ==
    Stepped(st, s, executeAppleScript(s, st.store, fails), fails)

\* updatedFields.push(f)
Push(st, f) == [st EXCEPT !.updated = Append(@, f)]

\* a slip: the push stands after the try block
PushAnyway(st, f) == Push(st, f)

\* the end of a field's try block after its last script: push when it
\* returned, the catch when it threw
AfterLast(st, f) == IF st.ok THEN Push(st, f) ELSE st

\* the rest of a field's try block after its first script
AfterFirst(st, f, a, id, fails) ==
    IF ~st.ok THEN st
    ELSE IF ~HasSecond(f, a) THEN Push(st, f)
    ELSE AfterLast(RunStep(st, SecondScript(f, a, id), fails), f)

\* try { execute the first script; execute the second if there is one;
\*       updatedFields.push(f) } catch { log the error }
UpdateField(st, f, a, id, fails) ==
    AfterFirst(RunStep(st, FirstScript(f, a, id), fails), f, a, id, fails)

\* a slip: the test of the field's presence is missing
RequestedAlways(f, a) == TRUE

\* if (updates.f !== undefined)
Requested(f, a) == f \in a.present

RECURSIVE ApplyUpdates(_, _, _, _, _)
\* the field updates in the order of the source, each under its own try
ApplyUpdates(fields, a, id, st, fails) ==
    IF fields = << >> THEN st
    ELSE ApplyUpdates(Tail(fields), a, id,
                      IF Requested(Head(fields), a)
                      THEN UpdateField(st, Head(fields), a, id, fails)
                      ELSE st,
                      fails)

\* a slip: an update that updated nothing is reported as a failure
ReportFailureWhenEmpty(st) ==
    [resp |-> [NoResp EXCEPT !.success = (st.updated # << >>),
                             !.message = "Updated contact",
                             !.updated_fields = st.updated],
     log |-> st.log,
     store |-> st.store]

\* the response of an update whose existence check succeeded
Report(st) ==
    [resp |-> [NoResp EXCEPT !.success = TRUE, !.message = "Updated contact",
                             !.updated_fields = st.updated],
     log |-> st.log,
     store |-> st.store]

\* a slip: the update goes on when the contact was not found
CheckedWithoutExistence(a, existingContact, store, fails) ==
    IF existingContact.resp.threw
    THEN [resp |-> existingContact.resp, log |-> existingContact.log,
          store |-> store]
    ELSE Report(ApplyUpdates(FieldOrder, a, existingContact.resp.contact.id,
                             Progress(store, existingContact.log, << >>), fails))

\* a slip: the mutation scripts address the contact by the caller's
\* identifier, not by the id the existence check returned
CheckedByIdentifier(a, existingContact, store, fails) ==
    IF existingContact.resp.threw
    THEN [resp |-> existingContact.resp, log |-> existingContact.log,
          store |-> store]
    ELSE IF ~existingContact.resp.success
    THEN [resp |-> Threw("Contact not found"), log |-> existingContact.log,
          store |-> store]
    ELSE Report(ApplyUpdates(FieldOrder, a, a.identifier,
                             Progress(store, existingContact.log, << >>), fails))

\* what updateContact does once getContact has returned or thrown
Checked(a, existingContact, store, fails) ==
    IF existingContact.resp.threw
    THEN [resp |-> existingContact.resp, log |-> existingContact.log,
          store |-> store]
    ELSE IF ~existingContact.resp.success
    THEN [resp |-> Threw("Contact not found"), log |-> existingContact.log,
          store |-> store]
    ELSE Report(ApplyUpdates(FieldOrder, a, existingContact.resp.contact.id,
                             Progress(store, existingContact.log, << >>), fails))

\* the update goes on with the store that getContact left
Continued(a, existingContact, fails) ==
    Checked(a, existingContact, existingContact.store, fails)

updateContact(a, store, fails) ==
    Continued(a, getContact(a.identifier, store, fails), fails)

-----------------------------------------------------------------------------
(* searchContacts and getRecentContacts *)

NameRows(names) ==
    Tuple([i \in 1..Len(names) |->
              [name |-> Trim(names[i]), organization |-> Empty]])

Listed(rows) ==
    [NoResp EXCEPT !.success = TRUE, !.count = Len(rows), !.contacts = rows]

\* the caps of Math.min(limit, 10) and Math.min(limit, 20)
SearchCap == 10
RecentCap == 20

SearchScript(a) ==
    IF a.query # Empty
    THEN Script("search", 0, <<Unescaped(a.query)>>, << >>, << >>, << >>)
    ELSE Script("list", Min(a.limit, SearchCap), << >>, << >>, << >>, << >>)

\* the names decoded from the output: result.split(', ') with a query,
\* result ? result.split(', ') : [] without
SearchNames(a, out) ==
    IF a.query # Empty
    THEN Slice0(Split(out, CommaSpace), a.limit)
    ELSE Slice0(ParseList(out), a.limit)

Searched(a, script, r, fails) ==
    [resp |-> IF r.ok THEN Listed(NameRows(SearchNames(a, r.out)))
              ELSE Threw("Search failed"),
     log |-> <<Ran(script, r, fails)>>]

\* a.query is the empty string when the request carries none: both are falsy
searchContacts(a, store, fails) ==
    Searched(a, SearchScript(a),
             executeAppleScript(SearchScript(a), store, fails), fails)

RECURSIVE NonBlank(_)
\* filter(entry => entry.trim())
NonBlank(entries) ==
    IF entries = << >> THEN << >>
    ELSE (IF Trim(Head(entries)) # Empty THEN <<Head(entries)>> ELSE << >>)
            \o NonBlank(Tail(entries))

\* entry.replace(/^, /, '')
DropLeadingComma(entry) ==
    IF IsPrefixAt(entry, CommaSpace, 1)
    THEN SubSeq(entry, Len(CommaSpace) + 1, Len(entry))
    ELSE entry

RecentRow(entry) ==
    [name |-> PartOr(Split(DropLeadingComma(entry), SplitMark), 1),
     modification_date |-> PartOr(Split(DropLeadingComma(entry), SplitMark), 2)]

RecentRows(entries) ==
    Tuple([i \in 1..Len(entries) |-> RecentRow(entries[i])])

RecentScript(a) ==
    Script("recent", Min(a.limit, RecentCap), << >>, << >>, << >>, << >>)

Recent(a, script, r, fails) ==
    [resp |-> IF ~r.ok THEN Threw("Get recent contacts failed")
              ELSE IF r.out = Empty THEN Listed(<< >>)
              ELSE Listed(Slice0(RecentRows(NonBlank(Split(r.out, EndMark))),
                                 a.limit)),
     log |-> <<Ran(script, r, fails)>>]

getRecentContacts(a, store, fails) ==
    Recent(a, RecentScript(a),
           executeAppleScript(RecentScript(a), store, fails), fails)

-----------------------------------------------------------------------------
(* Requests *)

\* The arguments of a request. missing holds the required fields the request
\* lacks: such a field destructures to undefined, which a template literal
\* renders as the text "undefined"
NoArgs ==
    [identifier |-> Empty, present |-> {}, name |-> Empty,
     organization |-> Empty, job_title |-> Empty, note |-> Empty,
     emails |-> << >>, phones |-> << >>, urls |-> << >>,
     query |-> Empty, limit |-> 20,
     days_back |-> 30, type |-> "modified", missing |-> {}]

Url(label, value) == [label |-> label, value |-> value]

\* create_contact requests: the scenario of the specification, a contact with
\* every field set, and one whose texts hold the characters the escaper and
\* the output formats treat specially
CreateRequests ==
    { [NoArgs EXCEPT !.name = <<"A", SP, "L">>, !.organization = <<"X">>,
                     !.emails = << <<"e">> >>],
      [NoArgs EXCEPT !.name = <<"B">>, !.organization = <<"X">>,
                     !.job_title = <<"J">>, !.note = <<"n">>,
                     !.emails = << <<"e">>, <<"f">>, <<"g">> >>,
                     !.phones = << <<"p">>, <<"q">> >>,
                     !.urls = << Url(<<"w">>, <<"h", ":", "u">>) >>],
      [NoArgs EXCEPT !.name = <<"C", SP, "D", SP, "E">>,
                     !.note = <<"a", "|", DQ, BS>>,
                     !.phones = << <<"p", ",", SP, "x">> >>],
      [NoArgs EXCEPT !.organization = <<"X">>, !.missing = {"name"}] }

\* the values an update_contact request gives to the fields it carries
UpdateValues ==
    { [NoArgs EXCEPT !.name = <<"F", SP, "G">>, !.organization = <<"Y">>,
                     !.job_title = <<"K">>, !.note = <<DQ, "m", NL>>,
                     !.urls = << Url(<<"v">>, <<"u">>), Url(<<"w">>, <<"t">>) >>,
                     !.emails = << <<"k">>, <<"e">> >>,
                     !.phones = << <<"r">>, <<"s">>, <<"t">> >>],
      [NoArgs EXCEPT !.name = <<"B">>,
                     !.emails = << <<"a", ",", SP, "b">> >>] }

\* the sets of fields an update_contact request carries
UpdateFieldSets ==
    {{}} \cup {{f} : f \in Fields}
         \cup {{"organization", "note"}, {"name", "emails", "phones"}, Fields}

\* the sets of fields of the update requests on an identifier: all of them on
\* the id of the first contact, a few on the other identifiers
FieldSetsOn(identifier) ==
    CASE identifier = <<"1">> -> UpdateFieldSets
      [] identifier = <<"B">> ->
            {{}, {"organization"}, {"name", "emails", "phones"}}
      [] OTHER -> {{}, {"organization"}}

\* an update request: of the values v, only those of the fields in present
UpdateRequest(identifier, present, v) ==
    [NoArgs EXCEPT
        !.identifier = identifier,
        !.present = present,
        !.name = IF "name" \in present THEN v.name ELSE Empty,
        !.organization = IF "organization" \in present THEN v.organization ELSE Empty,
        !.job_title = IF "job_title" \in present THEN v.job_title ELSE Empty,
        !.note = IF "note" \in present THEN v.note ELSE Empty,
        !.urls = IF "urls" \in present THEN v.urls ELSE << >>,
        !.emails = IF "emails" \in present THEN v.emails ELSE << >>,
        !.phones = IF "phones" \in present THEN v.phones ELSE << >>]

UndefinedText == <<"u", "n", "d", "e", "f", "i", "n", "e", "d">>

\* the identifier of a request: one of ids, or none at all
IdentifierArgs(ids) ==
    {[NoArgs EXCEPT !.identifier = i] : i \in ids}
        \cup {[NoArgs EXCEPT !.identifier = UndefinedText,
                             !.missing = {"identifier"}]}

\* identifiers of requests: the ids the store gives, names, a text that is
\* neither, and texts with a double quote or a backslash
Identifiers ==
    {<<"1">>, <<"2">>, <<"B">>, <<"B", SP, "L">>, <<"z">>, <<DQ>>, <<BS, BS>>,
     <<"1", DQ>> \o InjectedSource}

\* identifiers of update requests: an id, a name, and a text that is neither
UpdateIdentifiers == {<<"1">>, <<"B">>, <<"z">>}

Queries == {Empty, <<"B">>, <<"X">>, <<"z", "z">>, <<DQ>>}
Limits == {-1, 0, 1, 20}
\* the date ranges of get_recent_contacts requests
DateRanges ==
    { [days_back |-> 1, type |-> "modified"],
      [days_back |-> 30, type |-> "created"],
      [days_back |-> 30, type |-> "both"] }

FetchKinds == {"fetch", "fetch_emails", "fetch_phones", "fetch_urls"}

\* the scripts that update one field
FieldKinds(f) ==
    CASE f = "name" -> {"set_name"}
      [] f = "organization" -> {"set_organization"}
      [] f = "job_title" -> {"set_job_title"}
      [] f = "note" -> {"set_note"}
      [] f = "urls" -> {"clear_urls", "add_urls"}
      [] f = "emails" -> {"clear_emails", "add_emails"}
      [] f = "phones" -> {"clear_phones", "add_phones"}

MutationKinds(present) == UNION {FieldKinds(f) : f \in present}

\* the choices of the scripts the environment lets fail during one request:
\* none, one, or all of the kinds
FailSets(kinds) == {{}, kinds} \cup {{k} : k \in kinds}

\* during an update the existence check fails, or any of those of the
\* scripts of the requested fields
UpdateFailSets(present) == {{"fetch"}} \cup FailSets(MutationKinds(present))

\* a contact the store held before the server started
Existing ==
    [id |-> <<"1">>, first |-> <<"B">>, last |-> Empty,
     organization |-> <<"X">>, job_title |-> Empty, note |-> <<"n">>,
     emails |-> << [label |-> HomeLabel, value |-> <<"e">>],
                   [label |-> WorkLabel, value |-> <<"f">>] >>,
     phones |-> << >>,
     urls |-> << [label |-> <<"w">>, value |-> <<"h", ":", "u">>] >>,
     modified |-> DateText, created_days |-> 40, modified_days |-> 40]

\* another one, with a name of two words, the first of which is the name of
\* Existing, and entries of every kind
Other ==
    [id |-> <<"2">>, first |-> <<"B">>, last |-> <<"L">>,
     organization |-> Empty, job_title |-> <<"J">>, note |-> Empty,
     emails |-> << [label |-> HomeLabel, value |-> <<"g">>] >>,
     phones |-> << [label |-> HomeLabel, value |-> <<"p">>],
                   [label |-> WorkLabel, value |-> <<"q">>] >>,
     urls |-> << >>,
     modified |-> DateText, created_days |-> 40, modified_days |-> 1]

\* one whose name is the id of another
Namesake ==
    [id |-> <<"1">>, first |-> <<"2">>, last |-> Empty,
     organization |-> <<"N">>, job_title |-> Empty, note |-> Empty,
     emails |-> << >>, phones |-> << >>,
     urls |-> <<Url(<<"x", ":", "y">>, <<"u">>)>>,
     modified |-> DateText, created_days |-> 2, modified_days |-> 2]

\* the stores the server may find when it starts
InitStores == {<< >>, <<Existing>>, <<Existing, Other>>, <<Namesake, Other>>}

-----------------------------------------------------------------------------
(* The tool requests *)

\* A request arrives when the server is idle; its handler runs to its end
Serve(tool, a, r, store) ==
    /\ op = "none"
    /\ nOps < MaxOps
    /\ op' = tool
    /\ args' = a
    /\ resp' = r.resp
    /\ reply' = Respond(r.resp)
    /\ log' = r.log
    /\ before' = people
    /\ people' = store
    /\ nOps' = nOps + 1
    /\ UNCHANGED <<jobs, trace, str, escaped>>

SearchContacts ==
    \E q \in Queries, l \in Limits, fails \in FailSets({"search", "list"}) :
        LET a == [NoArgs EXCEPT !.query = q, !.limit = l]
        IN  Serve("search_contacts", a, searchContacts(a, people, fails), people)

GetContact ==
    \E a \in IdentifierArgs(Identifiers), fails \in FailSets(FetchKinds) :
        LET r == getContact(a.identifier, people, fails)
        IN  Serve("get_contact", a, r, r.store)

CreateContact ==
    \E a \in CreateRequests, fails \in FailSets({"create"}) :
        /\ Len(people) < MaxPeople
        /\ LET r == createContact(a, people, fails)
           IN  Serve("create_contact", a, r, r.store)

UpdateContact ==
    \E given \in IdentifierArgs(UpdateIdentifiers), v \in UpdateValues :
    \E present \in FieldSetsOn(given.identifier) :
    \E fails \in UpdateFailSets(present) :
        LET a == [UpdateRequest(given.identifier, present, v)
                    EXCEPT !.missing = given.missing]
            r == updateContact(a, people, fails)
        IN  Serve("update_contact", a, r, r.store)

GetRecentContacts ==
    \E l \in Limits, d \in DateRanges, fails \in FailSets({"recent"}) :
        LET a == [NoArgs EXCEPT !.limit = l, !.days_back = d.days_back,
                                !.type = d.type]
        IN  Serve("get_recent_contacts", a, getRecentContacts(a, people, fails),
                  people)

\* default: throw new Error(`Unknown tool: ${name}`)
UnknownTool ==
    Serve("unknown_tool", NoArgs,
          [resp |-> Threw("Unknown tool"), log |-> << >>], people)

\* the response goes back to the caller and the server waits for the next
\* request
Reply ==
    /\ op \notin {"none", "escape"}
    /\ op' = "none"
    /\ args' = NoArgs
    /\ resp' = NoResp
    /\ reply' = NoReply
    /\ log' = << >>
    /\ before' = people
    /\ UNCHANGED <<people, nOps, jobs, trace, str, escaped>>

Init ==
    /\ people \in InitStores
    /\ op = "none"
    /\ args = NoArgs
    /\ resp = NoResp
    /\ reply = NoReply
    /\ log = << >>
    /\ before = people
    /\ nOps = 0
    /\ jobs = << >>
    /\ trace = << >>
    /\ str = Empty
    /\ escaped = Empty

Next ==
    \/ SearchContacts
    \/ GetContact
    \/ CreateContact
    \/ UpdateContact
    \/ GetRecentContacts
    \/ UnknownTool
    \/ Reply

Spec == Init /\ [][Next]_vars

-----------------------------------------------------------------------------
(* The escaper on its own *)

EscChars == {"a", "n", BS, DQ, NL, CR, TAB}

RECURSIVE StringsUpTo(_, _)
\* the strings over chars of length at most n
StringsUpTo(chars, n) ==
    IF n = 0 THEN {<< >>}
    ELSE LET shorter == StringsUpTo(chars, n - 1)
         IN  shorter \cup {Append(s, c) : s \in shorter, c \in chars}

InitEscape ==
    /\ str \in StringsUpTo(EscChars, MaxLen)
    /\ escaped = Empty
    /\ people = << >>
    /\ op = "none"
    /\ args = NoArgs
    /\ resp = NoResp
    /\ reply = NoReply
    /\ log = << >>
    /\ before = << >>
    /\ nOps = 0
    /\ jobs = << >>
    /\ trace = << >>

Escape ==
    /\ op = "none"
    /\ escaped' = escapeForAppleScript(str)
    /\ op' = "escape"
    /\ UNCHANGED <<people, args, resp, log, before, nOps, reply, jobs, trace, str>>

NextEscape == Escape

SpecEscape == InitEscape /\ [][NextEscape]_vars

-----------------------------------------------------------------------------
(* Several requests pending *)

\* The handler and the operations are async functions. A handler runs without
\* a break up to an await whose promise is settled by a later job; the only
\* such await before a script is that of updateContact on getContact, which
\* has run its scripts by then. The continuation is queued behind the
\* handlers that are ready already: those of the requests that arrived
\* with it. Requests are delivered when no job is ready.

\* the requests of this development
PendingRequests ==
    { [tool |-> "update_contact",
       a |-> UpdateRequest(<<"1">>, {"organization", "emails"},
               [NoArgs EXCEPT !.organization = <<"Y">>,
                              !.emails = << <<"k">> >>])],
      [tool |-> "get_contact", a |-> [NoArgs EXCEPT !.identifier = <<"1">>]],
      [tool |-> "create_contact",
       a |-> [NoArgs EXCEPT !.name = <<"A", SP, "L">>]],
      [tool |-> "search_contacts", a |-> [NoArgs EXCEPT !.query = <<"B">>]] }

\* the requests one read of the input delivers
Chunks ==
    {<<r>> : r \in PendingRequests}
        \cup {<<r, q>> : r \in PendingRequests, q \in PendingRequests}

NoFetch == [resp |-> NoResp, log |-> << >>]

\* the handler of request number n, about to start
StartJob(n, r) ==
    [req |-> n, tool |-> r.tool, a |-> r.a, stage |-> "start",
     existing |-> NoFetch]

\* the executions lg, marked as those of request number n
Tags(lg, n) ==
    Tuple([i \in 1..Len(lg) |-> [req |-> n, kind |-> lg[i].script.kind]])

\* an operation other than the update, run from its start to its return
Operate(tool, a, store) ==
    CASE tool = "get_contact" ->
            [log |-> getContact(a.identifier, store, {}).log,
             store |-> getContact(a.identifier, store, {}).store]
      [] tool = "search_contacts" ->
            [log |-> searchContacts(a, store, {}).log, store |-> store]
      [] tool = "get_recent_contacts" ->
            [log |-> getRecentContacts(a, store, {}).log, store |-> store]
      [] tool = "create_contact" ->
            [log |-> createContact(a, store, {}).log,
             store |-> createContact(a, store, {}).store]

Ahead(j, lg, store) ==
    /\ trace' = trace \o Tags(lg, j.req)
    /\ people' = store
    /\ UNCHANGED <<op, args, resp, log, before, nOps, reply, str, escaped>>

\* a read of the input delivers one or two requests; their handlers are
\* ready in the order of arrival
Arrive ==
    /\ jobs = << >>
    /\ \E chunk \in Chunks :
        /\ nOps + Len(chunk) <= MaxPending
        /\ jobs' = Tuple([i \in 1..Len(chunk) |-> StartJob(nOps + i, chunk[i])])
        /\ nOps' = nOps + Len(chunk)
    /\ UNCHANGED <<people, op, args, resp, log, before, reply, trace, str, escaped>>

\* the first ready handler runs: an update up to its await on getContact,
\* its continuation going behind the ready ones; another operation to its end
StartHandler ==
    /\ jobs # << >>
    /\ Head(jobs).stage = "start"
    /\ \/ /\ Head(jobs).tool = "update_contact"
          /\ jobs' = Append(Tail(jobs),
                        [Head(jobs) EXCEPT
                            !.stage = "resume",
                            !.existing = getContact(Head(jobs).a.identifier,
                                                    people, {})])
          /\ Ahead(Head(jobs),
                   getContact(Head(jobs).a.identifier, people, {}).log,
                   getContact(Head(jobs).a.identifier, people, {}).store)
       \/ /\ Head(jobs).tool # "update_contact"
          /\ jobs' = Tail(jobs)
          /\ Ahead(Head(jobs),
                   Operate(Head(jobs).tool, Head(jobs).a, people).log,
                   Operate(Head(jobs).tool, Head(jobs).a, people).store)

\* the scripts that updateContact ran after getContact returned lg
AfterFetch(r, lg) == SubSeq(r.log, Len(lg) + 1, Len(r.log))

\* the continuation of an update runs to its end
ResumeUpdate ==
    /\ jobs # << >>
    /\ Head(jobs).stage = "resume"
    /\ jobs' = Tail(jobs)
    /\ Ahead(Head(jobs),
             AfterFetch(Checked(Head(jobs).a, Head(jobs).existing, people, {}),
                        Head(jobs).existing.log),
             Checked(Head(jobs).a, Head(jobs).existing, people, {}).store)

InitPending ==
    /\ people \in InitStores
    /\ op = "none"
    /\ args = NoArgs
    /\ resp = NoResp
    /\ reply = NoReply
    /\ log = << >>
    /\ before = people
    /\ nOps = 0
    /\ jobs = << >>
    /\ trace = << >>
    /\ str = Empty
    /\ escaped = Empty

NextPending ==
    \/ Arrive
    \/ StartHandler
    \/ ResumeUpdate

SpecPending == InitPending /\ [][NextPending]_vars

-----------------------------------------------------------------------------
(* What the claims speak of *)

Range(xs) == {xs[i] : i \in 1..Len(xs)}

\* the executions the last request made of the scripts that update field f
RanFor(f) == {e \in Range(log) : e.script.kind \in FieldKinds(f)}

\* the existence check of the last update resolved its identifier: the fetch
\* script returned, and returned something else than the not-found text
ExistenceCheckSucceeded == log[1].ok /\ log[1].out # NotFoundText

\* the stored value of field f of person p
FieldValue(p, f) == IF f = "name" THEN <<p.first, p.last>> ELSE p[f]

\* x is neither the id nor the name of a contact of the store
Unknown(x, store) ==
    \A i \in 1..Len(store) : store[i].id # x /\ NameOf(store[i]) # x

\* no execution of the last request failed because of the environment
NoEnvFailure == \A e \in Range(log) : ~e.env

\* g, the response of a fetch, shows the collections that the request a gave
ShowsCollections(g, a) ==
    /\ g.success
    /\ "emails" \in a.present => g.contact.emails = a.emails
    /\ "phones" \in a.present => g.contact.phones = a.phones
    /\ "urls" \in a.present => g.contact.urls = a.urls

\* g, the response of a fetch, shows every value of the create request a
ShowsCreated(g, a) ==
    /\ g.success
    /\ g.contact.name = a.name
    /\ g.contact.organization = a.organization
    /\ g.contact.job_title = a.job_title
    /\ g.contact.note = a.note
    /\ g.contact.emails = a.emails
    /\ g.contact.phones = a.phones
    /\ g.contact.urls = a.urls

EmptyList == resp.success /\ ~resp.threw /\ resp.count = 0 /\ resp.contacts = << >>

-----------------------------------------------------------------------------
(* Claims *)

\* C1: once the existence check of update_contact has succeeded, the update
\* does not throw, a script is run for every requested field whatever became
\* of the scripts of the other fields, and a requested field is in
\* updated_fields exactly when every script run for it succeeded.
C1_PartialFailureIsolation ==
    (op = "update_contact" /\ ExistenceCheckSucceeded) =>
        /\ ~resp.threw
        /\ \A f \in args.present :
            /\ RanFor(f) # {}
            /\ (f \in Range(resp.updated_fields)) <=> (\A e \in RanFor(f) : e.ok)

\* an update of organization and note in which the note script failed and the
\* organization is reported all the same
C1_Witness ==
    /\ op = "update_contact"
    /\ ExistenceCheckSucceeded
    /\ {"organization", "note"} \subseteq args.present
    /\ "organization" \in Range(resp.updated_fields)
    /\ "note" \notin Range(resp.updated_fields)
    /\ \E e \in RanFor("note") : ~e.ok

\* C2 (as claimed): after update_contact by id with a new list for emails,
\* phones or urls, all scripts succeeding, get_contact by that id returns
\* exactly the new list.
C2_ReplaceNotMerge ==
    (/\ op = "update_contact"
     /\ FindById(before, args.identifier) # 0
     /\ \A e \in Range(log) : e.ok)
        => ShowsCollections(getContact(args.identifier, people, {}).resp, args)

C4_FailFast ==
    (op = "update_contact" /\ ~ExistenceCheckSucceeded) =>
        /\ resp.threw
        /\ people = before
        /\ \A e \in Range(log) : e.script.kind \in FetchKinds

\* an update with fields to set whose fetch reported not found
C4_Witness ==
    /\ op = "update_contact"
    /\ args.present # {}
    /\ log[1].ok
    /\ log[1].out = NotFoundText
    /\ resp.threw
    /\ resp.error = "Contact not found"

\* C5 (as claimed): get_contact on an identifier that is no contact's id and
\* no contact's name returns success false with the message "Contact not
\* found" and does not throw, the environment failing no script.
C5_UnknownIdentifierNeverThrows ==
    (op = "get_contact" /\ Unknown(args.identifier, before) /\ NoEnvFailure) =>
        /\ ~resp.threw
        /\ ~resp.success
        /\ resp.message = "Contact not found"

\* C6 (as claimed): every caller-supplied string embedded in a script the
\* last request built is embedded in its escaped form.
C6_CallerStringsEscaped ==
    \A e \in Range(log) : \A l \in AllLits(e.script) :
        l.origin = "caller" => l.text = escapeForAppleScript(l.raw)

\* C7: reading escapeForAppleScript(s) as the text of a double-quoted literal
\* yields exactly s.
C7_EscapeRoundTrip ==
    op = "escape" => ReadLiteral(escaped) = [ok |-> TRUE, val |-> str]

\* a string of a backslash, a double quote and a newline has been escaped
C7_Witness ==
    /\ op = "escape"
    /\ str = <<BS, DQ, NL>>
    /\ escaped = <<BS, BS, BS, DQ, BS, "n">>

\* C8 (as claimed): after a create_contact that succeeded, get_contact by the
\* returned id shows the created name, organization, job title, note, emails,
\* phones and urls.
C8_CreateThenFetch ==
    (op = "create_contact" /\ resp.success) =>
        ShowsCreated(getContact(resp.contact_id, people, {}).resp, args)

\* C9 (as claimed): when the filter script of a search with a query returns
\* empty output, the response is success with count 0 and no contacts.
C9_NoMatchIsEmpty ==
    (/\ op = "search_contacts"
     /\ args.query # Empty
     /\ log[1].ok
     /\ log[1].out = Empty) => EmptyList

\* C10: an emails, phones or urls script of get_contact that returns empty
\* output gives the empty list and the fetch succeeds; the script of
\* get_recent_contacts, or of search_contacts without a query, that returns
\* empty output gives success with count 0 and no contacts.
C10_EmptyOutputIsEmptyCollection ==
    /\ (op = "get_contact" /\ Len(log) = 4) =>
        /\ resp.success
        /\ (log[2].ok /\ log[2].out = Empty) => resp.contact.emails = << >>
        /\ (log[3].ok /\ log[3].out = Empty) => resp.contact.phones = << >>
        /\ (log[4].ok /\ log[4].out = Empty) => resp.contact.urls = << >>
    /\ (/\ op \in {"get_recent_contacts", "search_contacts"}
        /\ args.query = Empty
        /\ log[1].ok
        /\ log[1].out = Empty) => EmptyList

\* a fetch of a contact without phones, whose phones script returned nothing
C10_Witness ==
    /\ op = "get_contact"
    /\ resp.success
    /\ log[2].ok /\ log[2].out # Empty
    /\ log[3].ok /\ log[3].out = Empty
    /\ resp.contact.phones = << >>

\* the positions of the contacts of store whose name, organization or note
\* contains q
Matching(store, q) ==
    {i \in 1..Len(store) :
        \/ Contains(NameOf(store[i]), q)
        \/ Contains(store[i].organization, q)
        \/ Contains(store[i].note, q)}

\* C11 (as claimed): a search with a query q returns, up to the limit, the
\* contacts whose name, organization or note contains q; when they are no
\* more than the limit, each of them is among the results.
C11_SearchNameOrganizationNote ==
    (/\ op = "search_contacts"
     /\ args.query # Empty
     /\ log[1].ok
     /\ Cardinality(Matching(before, args.query)) <= args.limit)
        => \A i \in Matching(before, args.query) :
              \E j \in 1..Len(resp.contacts) :
                  resp.contacts[j].name = NameOf(before[i])

\* person p was created or modified, as the request a asks, within its last
\* days_back days
InDateRange(p, a) ==
    CASE a.type = "created" -> p.created_days <= a.days_back
      [] a.type = "modified" -> p.modified_days <= a.days_back
      [] OTHER -> p.created_days <= a.days_back \/ p.modified_days <= a.days_back

\* C12 (as claimed): every contact get_recent_contacts returns is a contact
\* of the store that was created or modified, as type asks, within the last
\* days_back days.
C12_RecentWithinDateRange ==
    (op = "get_recent_contacts" /\ resp.success) =>
        \A j \in 1..Len(resp.contacts) :
            \E i \in 1..Len(before) :
                /\ NameOf(before[i]) = resp.contacts[j].name
                /\ InDateRange(before[i], args)

\* C13 (as claimed): whatever limit the caller gives, the script of
\* search_contacts, with or without a query, enumerates at most 10 rows and
\* the script of get_recent_contacts at most 20, however many people the
\* store holds (a script that runs).
C13_RowLimitsClamped ==
    /\ (op = "search_contacts" /\ log[1].ok) =>
        \A k \in 0..(SearchCap + 1) : MostRows(log[1].script, k) <= SearchCap
    /\ (op = "get_recent_contacts" /\ log[1].ok) =>
        \A k \in 0..(RecentCap + 1) : MostRows(log[1].script, k) <= RecentCap

\* the operation of the last request threw: it ran no script or its first
\* script failed, the existence check of an update did not succeed, or the
\* tool is unknown
OperationThrew ==
    \/ op = "unknown_tool"
    \/ op = "update_contact" /\ ~ExistenceCheckSucceeded
    \/ /\ op \in {"search_contacts", "get_contact", "create_contact",
                  "get_recent_contacts"}
       /\ (log = << >> \/ ~log[1].ok)

\* C14: every tool call ends with exactly one response of a single text
\* item; when the operation threw the text starts with "Error: " and isError
\* is set, and when it did not isError is not set.
C14_ErrorBoundary ==
    op \notin {"none", "escape"} =>
        /\ reply.sent = 1
        /\ Len(reply.content) = 1
        /\ reply.content[1].type = "text"
        /\ OperationThrew => resp.threw
        /\ resp.threw =>
            /\ reply.flags = {"isError"}
            /\ reply.content[1].text.prefix = "Error: "
        /\ ~resp.threw =>
            /\ reply.flags = {}
            /\ reply.content[1].text.prefix = ""

\* a request for a tool the server does not know, answered with an error
C14_Witness ==
    /\ op = "unknown_tool"
    /\ reply.sent = 1
    /\ reply.flags = {"isError"}
    /\ reply.content = <<TextItem("Error: ", "Unknown tool")>>

\* the last request lacks a field its tool requires
LacksRequired ==
    \/ op \in {"get_contact", "update_contact"} /\ "identifier" \in args.missing
    \/ op = "create_contact" /\ "name" \in args.missing

\* C15 (as claimed): a request that lacks a required field is rejected before
\* any script is built: it is answered with an error and the executor is not
\* invoked for it.
C15_ValidationPrecedesScripts ==
    LacksRequired => (resp.threw /\ log = << >>)

\* C16: get_contact, and the existence check of update_contact, resolve an
\* identifier that is the id of a contact to that contact, even when another
\* contact has the identifier as its name; the contact of that name is
\* resolved only when no contact has the identifier as its id.
C16_IdBeforeName ==
    /\ (/\ op = "get_contact"
        /\ log[1].ok
        /\ FindById(before, args.identifier) # 0) =>
            /\ resp.success
            /\ resp.contact.id = args.identifier
            /\ resp.contact.name = NameOf(before[FindById(before, args.identifier)])
    /\ (/\ op = "get_contact"
        /\ log[1].ok
        /\ FindById(before, args.identifier) = 0
        /\ FindByName(before, args.identifier) # 0) =>
            /\ resp.success
            /\ resp.contact.id = before[FindByName(before, args.identifier)].id
    /\ (/\ op = "update_contact"
        /\ log[1].ok
        /\ FindById(before, args.identifier) # 0) =>
            /\ resp.success
            /\ \A e \in Range(log) :
                e.script.kind \notin FetchKinds =>
                    Val(e.script.lits[1]) = args.identifier

\* a fetch of "2", the id of one contact and the name of an earlier one,
\* that returned the contact of that id
C16_Witness ==
    /\ op = "get_contact"
    /\ args.identifier = <<"2">>
    /\ FindByName(before, args.identifier) # 0
    /\ FindById(before, args.identifier) # FindByName(before, args.identifier)
    /\ resp.success
    /\ resp.contact.id = <<"2">>
    /\ resp.contact.name = <<"B", SP, "L">>

\* C17: whenever the existence check of update_contact succeeds the response
\* is success: true, also when updated_fields is empty, be it that no field
\* was requested or that the scripts of every requested field failed.
C17_EmptyUpdateIsSuccess ==
    (op = "update_contact" /\ ExistenceCheckSucceeded) =>
        /\ resp.success
        /\ reply.flags = {}
        /\ resp.message = "Updated contact"

\* an update of several fields whose scripts all failed, reported as a
\* success with no updated field
C17_Witness ==
    /\ op = "update_contact"
    /\ ExistenceCheckSucceeded
    /\ Cardinality(args.present) > 1
    /\ \A f \in args.present : \E e \in RanFor(f) : ~e.ok
    /\ resp.updated_fields = << >>
    /\ resp.success

\* no two contacts of the store have the same id
UniqueIds ==
    \A i, j \in 1..Len(people) : people[i].id = people[j].id => i = j

ScriptRank(kind) ==
    CASE kind = "fetch" -> 1
      [] kind = "fetch_emails" -> 2
      [] kind = "fetch_phones" -> 3
      [] kind = "fetch_urls" -> 4
      [] kind = "set_name" -> 5
      [] kind = "set_organization" -> 6
      [] kind = "set_job_title" -> 7
      [] kind = "set_note" -> 8
      [] kind = "clear_urls" -> 9
      [] kind = "add_urls" -> 10
      [] kind = "clear_emails" -> 11
      [] kind = "add_emails" -> 12
      [] kind = "clear_phones" -> 13
      [] kind = "add_phones" -> 14

\* the place of a field in that text
FieldRank(f) ==
    CASE f = "name" -> 1
      [] f = "organization" -> 2
      [] f = "job_title" -> 3
      [] f = "note" -> 4
      [] f = "urls" -> 5
      [] f = "emails" -> 6
      [] f = "phones" -> 7

\* C19: the scripts of an update are executed one after another in the fixed
\* order name, organization, job_title, note, urls, emails, phones, each
\* collection as its clear script directly followed by its append script,
\* and updated_fields lists the successful fields in that same order.
C19_FixedSequentialOrder ==
    op = "update_contact" =>
        /\ \A i, j \in 1..Len(log) :
            i < j => ScriptRank(log[i].script.kind) < ScriptRank(log[j].script.kind)
        /\ \A j \in 1..Len(log) :
            log[j].script.kind \in {"add_urls", "add_emails", "add_phones"} =>
                /\ j > 1
                /\ ScriptRank(log[j - 1].script.kind) + 1
                      = ScriptRank(log[j].script.kind)
                /\ log[j - 1].ok
        /\ \A i, j \in 1..Len(resp.updated_fields) :
            i < j => FieldRank(resp.updated_fields[i])
                        < FieldRank(resp.updated_fields[j])

\* an update of every field that ran its ten scripts after the four of the
\* existence check and reports the seven fields
C19_Witness ==
    /\ op = "update_contact"
    /\ args.present = Fields
    /\ Len(log) = 14
    /\ Len(resp.updated_fields) = 7

\* C20 (as claimed): the scripts of one request are never interleaved with
\* the scripts of another: in the order of execution, between two scripts of
\* a request stands no script of another request.
C20_RequestsNotInterleaved ==
    \A i, j, k \in 1..Len(trace) :
        (i < j /\ j < k /\ trace[i].req = trace[k].req)
            => trace[j].req = trace[i].req

\* C21 (as claimed): a collection field that an update requested and does
\* not report in updated_fields holds, for every contact, the entries it
\* held before the update.
C21_UnreportedCollectionUnchanged ==
    (op = "update_contact" /\ ExistenceCheckSucceeded) =>
        \A f \in CollectionFields \cap args.present :
            f \notin Range(resp.updated_fields) =>
                \A i \in 1..Len(before) : people[i][f] = before[i][f]

\* the number of consecutive backslashes that end just before position i
RECURSIVE BackslashRun(_, _)
BackslashRun(t, i) ==
    IF i > 1 /\ t[i - 1] = BS THEN 1 + BackslashRun(t, i - 1) ELSE 0

\* the characters of s that a substitution of the escaper rewrites
Rewritten(s) == {i \in 1..Len(s) : s[i] \in {BS, DQ, NL, CR, TAB}}

\* C22: escaped text cannot end its literal: it holds no raw newline,
\* carriage return or tab, each of its double quotes follows an odd number
\* of consecutive backslashes, and each rewritten character of the input
\* became exactly two characters (no introduced backslash is escaped again).
C22_EscapedCannotEndLiteral ==
    op = "escape" =>
        /\ \A i \in 1..Len(escaped) :
              /\ escaped[i] \notin {NL, CR, TAB}
              /\ escaped[i] = DQ => BackslashRun(escaped, i) % 2 = 1
        /\ Len(escaped) = Len(str) + Cardinality(Rewritten(str))

\* C22 witness: a quote that follows a backslash, and a tab, were escaped
C22_Witness ==
    /\ op = "escape"
    /\ str = <<BS, DQ, TAB>>
    /\ escaped = <<BS, BS, BS, DQ, BS, "t">>

\* no field of the records holds a sentinel
SentinelFree(fields) ==
    \A x \in fields : ~Contains(x, SplitMark) /\ ~Contains(x, EndMark)

\* C23 (as claimed): record lists are decoded losslessly: the urls that
\* get_contact returns are the (label, value) pairs of the resolved contact,
\* and the rows that get_recent_contacts returns are the (name, modification
\* date) pairs of the enumerated people, in the same number and order, when
\* no field holds a sentinel (a field may hold ", " or ":").
C23_RecordListsDecoded ==
    /\ (/\ op = "get_contact"
        /\ Len(log) = 4
        /\ log[4].ok
        /\ SentinelFree(
              {u.label : u \in Range(before[FindById(before, resp.contact.id)].urls)}
              \cup
              {u.value : u \in Range(before[FindById(before, resp.contact.id)].urls)}))
       => resp.contact.urls = before[FindById(before, resp.contact.id)].urls
    /\ (/\ op = "get_recent_contacts"
        /\ resp.success
        /\ SentinelFree({NameOf(p) : p \in Range(before)}))
       => /\ Len(resp.contacts) <= Len(before)
          /\ \A j \in 1..Len(resp.contacts) :
                resp.contacts[j] = [name |-> NameOf(before[j]),
                                    modification_date |-> before[j].modified]

\* the label claimed for the entry at 0-based index i
ClaimedLabel(word, i) ==
    CASE i = 0 -> <<"h", "o", "m", "e">>
      [] i = 1 -> <<"w", "o", "r", "k">>
      [] OTHER -> word \o DigitText(i + 1)

\* the stored entries are the given values, in order, under claimed labels
LabelledInOrder(entries, word, values) ==
    /\ Len(entries) = Len(values)
    /\ \A i \in 1..Len(values) :
          entries[i] = [label |-> ClaimedLabel(word, i - 1), value |-> values[i]]

\* C24: positional labels: the emails (phones) that create_contact wrote, and
\* those an update_contact reports as updated, are the caller's values in
\* list order labelled home, work, email3 (phone3), ...; the urls carry the
\* caller's labels.
C24_PositionalLabels ==
    /\ (op = "create_contact" /\ resp.success) =>
          /\ LabelledInOrder(people[Len(people)].emails,
                             <<"e", "m", "a", "i", "l">>, args.emails)
          /\ LabelledInOrder(people[Len(people)].phones,
                             <<"p", "h", "o", "n", "e">>, args.phones)
          /\ people[Len(people)].urls = args.urls
    /\ (op = "update_contact" /\ ExistenceCheckSucceeded) =>
          /\ "emails" \in Range(resp.updated_fields) =>
                LabelledInOrder(people[Resolve(before, args.identifier)].emails,
                                <<"e", "m", "a", "i", "l">>, args.emails)
          /\ "phones" \in Range(resp.updated_fields) =>
                LabelledInOrder(people[Resolve(before, args.identifier)].phones,
                                <<"p", "h", "o", "n", "e">>, args.phones)
          /\ "urls" \in Range(resp.updated_fields) =>
                people[Resolve(before, args.identifier)].urls = args.urls

\* C24 witness: an update wrote three phones, the third labelled phone3
C24_Witness ==
    /\ op = "update_contact"
    /\ "phones" \in Range(resp.updated_fields)
    /\ Len(args.phones) = 3
    /\ people[1].phones[3] =
           [label |-> <<"p", "h", "o", "n", "e", "3">>, value |-> <<"t">>]

\* the interpreter processes that the executions of a log started
RECURSIVE Started(_)
Started(lg) == IF lg = << >> THEN 0 ELSE Head(lg).starts + Started(Tail(lg))

C26_UpdateTargetsResolvedId ==
    (op = "update_contact" /\ ExistenceCheckSucceeded) =>
        /\ \A k \in 5..Len(log) :
              log[k].script.lits[1] =
                  FromStore(before[Resolve(before, args.identifier)].id)
        /\ \A f \in Range(resp.updated_fields) :
              CASE f = "name" ->
                      NameOf(people[Resolve(before, args.identifier)]) = args.name
                [] f \in CollectionFields ->
                      Len(people[Resolve(before, args.identifier)][f]) = Len(args[f])
                [] OTHER ->
                      people[Resolve(before, args.identifier)][f] = args[f]
        /\ \A j \in 1..Len(before) :
              j # Resolve(before, args.identifier) => people[j] = before[j]

\* C26 witness: a contact addressed by its name was renamed and its emails
\* and phones were then replaced
C26_Witness ==
    /\ op = "update_contact"
    /\ args.identifier = <<"B">>
    /\ resp.updated_fields = <<"name", "emails", "phones">>
    /\ NameOf(before[1]) = <<"B">>
    /\ NameOf(people[1]) = <<"F", SP, "G">>
    /\ Len(people[1].phones) = 3
    /\ Len(people) = 2

\* the kinds of script that the read operations build
ReadKinds == {"search", "list", "recent"} \cup FetchKinds

\* the executions of the existence check of an update, all those of a read
ReadExecutions ==
    IF op = "update_contact"
    THEN {log[k] : k \in 1..Min(Len(log), 4)}
    ELSE Range(log)

\* C27 (as claimed): read operations have no effect on the store: search_contacts,
\* get_contact, get_recent_contacts and the existence check of update_contact
\* execute only scripts that read, each of which leaves the store it runs on
\* as it was; after a read, and after an update whose existence check did not
\* resolve, every contact is unchanged and none was created.
C27_ReadsLeaveStore ==
    /\ op \in {"search_contacts", "get_contact", "get_recent_contacts",
               "update_contact"} =>
          \A e \in ReadExecutions :
              /\ e.script.kind \in ReadKinds
              /\ executeAppleScript(e.script, before, {}).store = before
    /\ op \in {"search_contacts", "get_contact", "get_recent_contacts"} =>
          people = before
    /\ (op = "update_contact" /\ ~ExistenceCheckSucceeded) => people = before

\* max(limit, 0)
AtMost(limit) == IF limit < 0 THEN 0 ELSE limit

\* C28 (as claimed): whatever integer limit the caller passes, negative ones
\* included, the contacts that search_contacts and get_recent_contacts
\* return are at most max(limit, 0) and count is their number.
C28_NeverExceedsLimit ==
    (op \in {"search_contacts", "get_recent_contacts"} /\ resp.success) =>
        /\ Len(resp.contacts) <= AtMost(args.limit)
        /\ resp.count = Len(resp.contacts)

\* C29: a failing sub-query of get_contact is not reported: once the main
\* script has resolved the contact, get_contact returns success whatever the
\* sub-queries did; a field whose script failed is the empty list and a
\* field whose script returned is the list decoded from its output;
\* get_contact throws exactly when its main script fails.
C29_SubQueryFailureNotReported ==
    op = "get_contact" =>
        /\ resp.threw <=> ~log[1].ok
        /\ (log[1].ok /\ log[1].out # NotFoundText) =>
              /\ Len(log) = 4
              /\ resp.success
              /\ resp.contact.emails =
                    IF log[2].ok THEN ParseList(log[2].out) ELSE << >>
              /\ resp.contact.phones =
                    IF log[3].ok THEN ParseList(log[3].out) ELSE << >>
              /\ resp.contact.urls =
                    IF log[4].ok THEN ParseUrls(log[4].out) ELSE << >>

\* C29 witness: the emails script failed, the phones were still decoded
C29_Witness ==
    /\ op = "get_contact"
    /\ Len(log) = 4
    /\ ~log[2].ok
    /\ log[3].ok
    /\ resp.success
    /\ resp.contact.emails = << >>
    /\ Len(resp.contact.phones) = 2

\* the positions of the log at which a script of field f was executed
StepsOf(f) == {k \in 1..Len(log) : log[k].script.kind \in FieldKinds(f)}

\* the number of scripts a fetch executes: 4 when its main script resolved
\* the contact, else 1
FetchLength == IF ExistenceCheckSucceeded THEN 4 ELSE 1

\* what is claimed of every operation but create_contact: search and recent
\* executed 1 script, get_contact 1 or 4, update_contact those of the fetch
\* and then none for a field not requested, at most 1 for a requested scalar
\* field and at most 2 for a requested collection field; one response was
\* returned
ScriptsBounded ==
    /\ op # "none" => reply.sent = 1
    /\ op \in {"search_contacts", "get_recent_contacts"} => Len(log) = 1
    /\ op = "get_contact" => Len(log) = FetchLength
    /\ op = "update_contact" =>
          /\ Len(log) >= FetchLength
          /\ \A k \in 1..FetchLength : log[k].script.kind \in FetchKinds
          /\ \A k \in (FetchLength + 1)..Len(log) :
                \E f \in args.present : k \in StepsOf(f)
          /\ \A f \in Fields :
                Cardinality(StepsOf(f)) <=
                    IF f \notin args.present THEN 0
                    ELSE IF f \in CollectionFields THEN 2 ELSE 1

====
